---- MODULE Spec2Model ----
(***************************************************************************)
(* Limiting Factor: bounded request-body extraction (axum extractor and    *)
(* Rocket data guard), the RequestBody conversions and the JSON response   *)
(* mapper.                                                                 *)
(*                                                                         *)
(* A body is a sequence of bytes.  It is kept run-length encoded: a run is *)
(* [b |-> byte, n |-> count], so that bodies around the 1,000,000 byte     *)
(* limit stay small values.  Buffers are only ever built with AppendRun,   *)
(* which keeps the encoding canonical (no empty run, no two adjacent runs  *)
(* of the same byte), so equality of encodings is equality of byte         *)
(* sequences.                                                              *)
(***************************************************************************)
EXTENDS Integers, Sequences, FiniteSets, TLC

\* ------------------------------------------------------------------ bounds

\* Largest number of frames the byte source of one request delivers.
MaxFrames == 3

\* ------------------------------------------------------- program constants

\* pub const REQUEST_BODY_LIMIT: usize = 1_000_000;
REQUEST_BODY_LIMIT == 1000000

\* const ROCKET_REQUEST_BODY_LIMIT: u64 = REQUEST_BODY_LIMIT as u64;
ROCKET_REQUEST_BODY_LIMIT == REQUEST_BODY_LIMIT

\* ------------------------------------------------------------------- bytes

\* The byte values the inputs are built from: 0x61 is the ASCII letter a,
\* 0xC3 0xA9 is the two-byte UTF-8 encoding of U+00E9, 0xFF occurs in no
\* UTF-8 text.
Ascii == "61"
Lead2 == "C3"
Cont == "A9"
Bad == "FF"

Min(a, b) == IF a < b THEN a ELSE b

\* Vec<u8> / Bytes / String: number of bytes (len()).
RECURSIVE ByteLen(_)
ByteLen(s) == IF s = <<>> THEN 0 ELSE s[1].n + ByteLen(Tail(s))

\* Appends the bytes of run r to the byte sequence s.
AppendRun(s, r) ==
    IF r.n = 0 THEN s
    ELSE IF s # <<>> /\ s[Len(s)].b = r.b
         THEN [s EXCEPT ![Len(s)].n = @ + r.n]
         ELSE Append(s, r)

\* Concatenation of the frames of a body, in order.
RECURSIVE Concat(_)
Concat(fs) ==
    IF fs = <<>> THEN <<>>
    ELSE AppendRun(Concat(SubSeq(fs, 1, Len(fs) - 1)), fs[Len(fs)])

\* UTF-8 validation (core::str::from_utf8) over the bytes of s from run i
\* on, with `need` continuation bytes still owed to the current character.
RECURSIVE Utf8From(_, _, _)
Utf8From(s, i, need) ==
    IF i > Len(s) THEN need = 0
    ELSE CASE s[i].b = Ascii -> need = 0 /\ Utf8From(s, i + 1, 0)
           [] s[i].b = Lead2 -> need = 0 /\ s[i].n = 1 /\ Utf8From(s, i + 1, 1)
           [] s[i].b = Cont  -> need = 1 /\ s[i].n = 1 /\ Utf8From(s, i + 1, 0)
           [] OTHER          -> FALSE

IsUtf8(s) == Utf8From(s, 1, 0)

\* String::from_utf8(vec): Ok(String) owning the same bytes, or Err.
from_utf8(vec) ==
    IF IsUtf8(vec) THEN [ok |-> TRUE, value |-> vec] ELSE [ok |-> FALSE]

\* ------------------------------------------------------------------- state

VARIABLES
    frames,     \* the request's byte source: the frames it delivers, in order
    fail_at,    \* 0: the source ends normally; k > 0: its k-th poll fails
    io_error,   \* the error the source fails with
    a_pc,       \* axum from_request: "collect", "rejected", "extracted", "responded"
    a_pos,      \* axum: number of the next poll of the body
    a_buf,      \* axum: the bytes body.collect() has buffered
    a_out,      \* axum: the Result from_request returned
    a_resp,     \* axum: the Response made from a rejection
    r_pc,       \* Rocket from_data: "read", "done"
    r_pos,      \* Rocket: number of the next read of the inner stream
    r_limit,    \* Rocket: Take's remaining limit
    r_buf,      \* Rocket: the bytes read_to_string has buffered
    r_out,      \* Rocket: the Outcome from_data returned
    h_pc,       \* handler: "body", "string", "optional", "returned", "replied"
    h_type,     \* handler: the type of its body argument
    h_body,     \* handler: its body argument
    h_out,      \* handler: what into_string / into_optional_string returned
    h_result,   \* handler: the Result it returns
    h_reply,    \* the ApiJsonResponse made from that Result
    log,        \* the records written with the log macros, in order
    q_pc,       \* query mapper, per request: "result", "replied"
    q_result,   \* query mapper, per request: the QueryResult of the handler
    q_reply,    \* query mapper, per request: the ApiJsonResponse made of it
    c_pc,       \* configuration, per process: "start", "resolved"
    c_env,      \* configuration, per process: the environment of the process
    c_default,  \* configuration, per process: the default_config passed
    c_config,   \* configuration, per process: the ServerConfig resolved
    m_pc,       \* axum App: "start", "resolved"
    m_axum,     \* axum App: the version of axum the build links
    m_app,      \* axum App: the App, its config and its router
    m_served,   \* axum App: what resolve_router gave to serve
    p_pool,     \* database: the pool, its max_size and its connections
    p_req,      \* database: per request, where it is with its connection
    p_out,      \* database: per request, the Outcome of the guard
    e_reqs,     \* concurrent extractions: per request, its source and locals
    k_pc,       \* kernel: "start", "parsed", "created", "checked", "managed",
                \*         "returned", "serving", "panicked", "exited"
    k_app,      \* kernel: the application type start_application belongs to
    k_env,      \* kernel: the environment of the process, .env file included
    k_world,    \* kernel: what the .env file, the database and the launch do
    k_config,   \* kernel: the result of parse_environment
    k_service,  \* kernel: the application or service created
    k_events,   \* kernel: the calls made on the database and the server
    k_run,      \* kernel: the result of run
    k_exit      \* kernel: the code process::exit was called with

vars_x == <<frames, fail_at, io_error, a_pc, a_pos, a_buf, a_out, a_resp,
            r_pc, r_pos, r_limit, r_buf, r_out>>

vars_h == <<h_pc, h_type, h_body, h_out, h_result, h_reply>>

vars_q == <<q_pc, q_result, q_reply>>

vars_c == <<c_pc, c_env, c_default, c_config>>

vars_m == <<m_pc, m_axum, m_app, m_served>>

vars_p == <<p_pool, p_req, p_out>>

vars_k == <<k_pc, k_app, k_env, k_world, k_config, k_service, k_events, k_run,
           k_exit>>

vars == <<vars_x, vars_h, log, vars_q, vars_c, vars_m, vars_p, e_reqs, vars_k>>

\* What the extraction leaves alone, what the handler leaves alone, and so on.
not_x == <<vars_h, log, vars_q, vars_c, vars_m, vars_p, e_reqs, vars_k>>
not_h == <<vars_x, log, vars_q, vars_c, vars_m, vars_p, e_reqs, vars_k>>
not_q == <<vars_x, vars_h, vars_c, vars_m, vars_p, e_reqs, vars_k>>
not_c == <<vars_x, vars_h, log, vars_q, vars_m, vars_p, e_reqs, vars_k>>
not_m == <<vars_x, vars_h, log, vars_q, vars_c, vars_p, e_reqs, vars_k>>
not_p == <<vars_x, vars_h, vars_q, vars_c, vars_m, e_reqs, vars_k>>
not_e == <<vars_x, vars_h, log, vars_q, vars_c, vars_m, vars_p, vars_k>>
not_k == <<vars_x, vars_h, vars_q, vars_c, vars_m, vars_p, e_reqs>>

\* ------------------------------------------------------------------ inputs

\* The frames a byte source delivers.
Frames ==
    { [b |-> Ascii, n |-> 1],
      [b |-> Ascii, n |-> REQUEST_BODY_LIMIT - 1],
      [b |-> Ascii, n |-> REQUEST_BODY_LIMIT],
      [b |-> Lead2, n |-> 1],
      [b |-> Cont, n |-> 1],
      [b |-> Bad, n |-> 1] }

RECURSIVE SeqsUpTo(_, _)
SeqsUpTo(S, k) ==
    IF k = 0 THEN {<<>>}
    ELSE LET shorter == SeqsUpTo(S, k - 1)
         IN  shorter \cup {Append(q, x) : q \in shorter, x \in S}

Bodies == SeqsUpTo(Frames, MaxFrames)

\* Descriptions of the failures of a byte source.
IoErrors == {"connection reset", "body write aborted"}

NoError == "none"

Pending == [tag |-> "Pending"]

\* ---------------------------------------------- core: RequestBody (guards)

\* RequestBody { content }
RequestBody(content) == [content |-> content]

\* AxumRequestBody(pub RequestBody)
AxumRequestBody(body) == [inner |-> body]

\* RocketRequestBody(pub RequestBody)
RocketRequestBody(body) == [inner |-> body]

\* Option<String>
None == [tag |-> "None"]
Some(value) == [tag |-> "Some", value |-> value]

\* String::new()
String_new == <<>>

\* String::is_empty(): len() == 0
is_empty(string) == ByteLen(string) = 0

\* RequestBody::new()
RequestBody_new == RequestBody(String_new)

\* RequestBody::into_string
into_string(self) == self.content

\* into_optional_string without the test for the empty content.
into_optional_string_always_some(self) == Some(self.content)

\* RequestBody::into_optional_string
into_optional_string(self) ==
    IF is_empty(self.content) THEN None ELSE Some(self.content)

\* AxumRequestBody::new, into_string, into_optional_string
AxumRequestBody_new == AxumRequestBody(RequestBody_new)
AxumRequestBody_into_string(self) == into_string(self.inner)
AxumRequestBody_into_optional_string(self) == into_optional_string(self.inner)

\* RocketRequestBody::new, into_string, into_optional_string
RocketRequestBody_new == RocketRequestBody(RequestBody_new)
RocketRequestBody_into_string(self) == into_string(self.inner)
RocketRequestBody_into_optional_string(self) == into_optional_string(self.inner)

\* ------------------------------------------------ axum: RequestBodyError

PAYLOAD_TOO_LARGE == 413
BAD_REQUEST == 400
INTERNAL_SERVER_ERROR == 500

TooLarge == [kind |-> "TooLarge"]
InvalidEncoding == [kind |-> "InvalidEncoding"]
ReadError(detail) == [kind |-> "ReadError", detail |-> detail]

\* Display of the error of a body (e.to_string()).
to_string(e) == "error reading a body from connection: " \o e

\* impl IntoResponse for RequestBodyError
into_response(self) ==
    CASE self.kind = "TooLarge" ->
           [status |-> PAYLOAD_TOO_LARGE, body |-> "Request body too large"]
      [] self.kind = "InvalidEncoding" ->
           [status |-> BAD_REQUEST,
            body |-> "Request body contains invalid characters when trying to decode as UTF-8"]
      [] self.kind = "ReadError" ->
           [status |-> INTERNAL_SERVER_ERROR,
            body |-> "Failed to read request body: " \o self.detail]

\* --------------------------------------------------- axum: from_request

\* from_request_collected with the UTF-8 conversion made before the size
\* check.
from_request_utf8_first(bytes) ==
    LET content == from_utf8(bytes)
    IN  IF ~content.ok
        THEN [tag |-> "Err", error |-> InvalidEncoding]
        ELSE IF ByteLen(bytes) > REQUEST_BODY_LIMIT
             THEN [tag |-> "Err", error |-> TooLarge]
             ELSE [tag |-> "Ok", value |-> AxumRequestBody(RequestBody(content.value))]

\* from_request_collected with the size check made with >= for >.
from_request_exclusive_limit(bytes) ==
    IF ByteLen(bytes) >= REQUEST_BODY_LIMIT
    THEN [tag |-> "Err", error |-> TooLarge]
    ELSE LET content == from_utf8(bytes)
         IN  IF content.ok
             THEN [tag |-> "Ok", value |-> AxumRequestBody(RequestBody(content.value))]
             ELSE [tag |-> "Err", error |-> InvalidEncoding]

\* from_request once the body is collected: to_bytes(), the size check, the
\* conversion to a UTF-8 string.
from_request_collected(bytes) ==
    IF ByteLen(bytes) > REQUEST_BODY_LIMIT
    THEN [tag |-> "Err", error |-> TooLarge]
    ELSE LET content == from_utf8(bytes)
         IN  IF content.ok
             THEN [tag |-> "Ok", value |-> AxumRequestBody(RequestBody(content.value))]
             ELSE [tag |-> "Err", error |-> InvalidEncoding]

\* from_request_failed with the error of the body swallowed
\* (unwrap_or_default() on the collected body).
from_request_error_swallowed(e) ==
    [tag |-> "Ok", value |-> AxumRequestBody(RequestBody(<<>>))]

\* from_request when body.collect() ends with an error.
from_request_failed(e) == [tag |-> "Err", error |-> ReadError(to_string(e))]

AxumReturn(result) ==
    /\ a_out' = result
    /\ a_pc' = IF result.tag = "Ok" THEN "extracted" ELSE "rejected"

\* body.collect(): one frame of the body arrives and is buffered.
AxumCollectFrame ==
    /\ a_pc = "collect"
    /\ a_pos # fail_at
    /\ a_pos <= Len(frames)
    /\ a_buf' = AppendRun(a_buf, frames[a_pos])
    /\ a_pos' = a_pos + 1
    /\ UNCHANGED not_x
    /\ UNCHANGED <<frames, fail_at, io_error, a_pc, a_out, a_resp,
                   r_pc, r_pos, r_limit, r_buf, r_out>>

\* body.collect(): the body fails; from_request returns ReadError.
AxumCollectError ==
    /\ a_pc = "collect"
    /\ a_pos = fail_at
    /\ AxumReturn(from_request_failed(io_error))
    /\ UNCHANGED not_x
    /\ UNCHANGED <<frames, fail_at, io_error, a_pos, a_buf, a_resp,
                   r_pc, r_pos, r_limit, r_buf, r_out>>

\* body.collect(): the body ends; from_request checks what was collected.
AxumCollected ==
    /\ a_pc = "collect"
    /\ a_pos # fail_at
    /\ a_pos > Len(frames)
    /\ AxumReturn(from_request_collected(a_buf))
    /\ UNCHANGED not_x
    /\ UNCHANGED <<frames, fail_at, io_error, a_pos, a_buf, a_resp,
                   r_pc, r_pos, r_limit, r_buf, r_out>>

\* The rejection from_request returned is turned into the response.
AxumReject ==
    /\ a_pc = "rejected"
    /\ a_resp' = into_response(a_out.error)
    /\ a_pc' = "responded"
    /\ UNCHANGED not_x
    /\ UNCHANGED <<frames, fail_at, io_error, a_pos, a_buf, a_out,
                   r_pc, r_pos, r_limit, r_buf, r_out>>

\* ---------------------------------------------------- Rocket: from_data

\* Status::InternalServerError
InternalServerError == 500

\* std::io::Error: the failure of the inner stream, and the one
\* read_to_string makes when the bytes read are not UTF-8.
IoFailure(e) == [kind |-> "Other", error |-> e]
InvalidData == [kind |-> "InvalidData", error |-> "stream did not contain valid UTF-8"]

\* format!("{:?}", e)
debug_fmt(e) == "Custom { kind: " \o e.kind \o ", error: \"" \o e.error \o "\" }"

\* take_read without the limit (read_to_string on data.open() directly).
take_read_unlimited(limit, n) == n

\* Take::read: the number of bytes one read of a frame of n bytes returns
\* under the remaining limit.
take_read(limit, n) == Min(n, limit)

\* read_to_string at the end of the stream: the bytes read are appended to
\* the String if they are UTF-8, and the read fails otherwise.
read_to_string_end(bytes) ==
    IF IsUtf8(bytes) THEN [ok |-> TRUE, content |-> bytes]
    ELSE [ok |-> FALSE, error |-> InvalidData]

\* from_data after data.open().take(..).read_to_string(&mut content).
from_data_read(read) ==
    IF ~read.ok
    THEN [tag |-> "Failure", status |-> InternalServerError,
          error |-> debug_fmt(read.error)]
    ELSE [tag |-> "Success",
          value |-> RocketRequestBody(RequestBody(read.content))]

\* read_to_string: one read through Take, of at most `limit` bytes.
RocketReadFrame ==
    /\ r_pc = "read"
    /\ r_limit > 0
    /\ r_pos # fail_at
    /\ r_pos <= Len(frames)
    /\ LET k == take_read(r_limit, frames[r_pos].n)
       IN  /\ r_buf' = AppendRun(r_buf, [b |-> frames[r_pos].b, n |-> k])
           /\ r_limit' = r_limit - k
    /\ r_pos' = r_pos + 1
    /\ UNCHANGED not_x
    /\ UNCHANGED <<frames, fail_at, io_error, a_pc, a_pos, a_buf, a_out, a_resp,
                   r_pc, r_out>>

\* read_to_string: the inner stream fails; from_data returns the Failure.
RocketReadError ==
    /\ r_pc = "read"
    /\ r_limit > 0
    /\ r_pos = fail_at
    /\ r_out' = from_data_read([ok |-> FALSE, error |-> IoFailure(io_error)])
    /\ r_pc' = "done"
    /\ UNCHANGED not_x
    /\ UNCHANGED <<frames, fail_at, io_error, a_pc, a_pos, a_buf, a_out, a_resp,
                   r_pos, r_limit, r_buf>>

\* read_to_string: Take is exhausted or the inner stream ends; from_data
\* returns what read_to_string made of the bytes.
RocketReadEnd ==
    /\ r_pc = "read"
    /\ \/ r_limit = 0
       \/ r_pos # fail_at /\ r_pos > Len(frames)
    /\ r_out' = from_data_read(read_to_string_end(r_buf))
    /\ r_pc' = "done"
    /\ UNCHANGED not_x
    /\ UNCHANGED <<frames, fail_at, io_error, a_pc, a_pos, a_buf, a_out, a_resp,
                   r_pos, r_limit, r_buf>>

\* ------------------------------------------------ extraction: specification

InitX ==
    /\ frames \in Bodies
    /\ fail_at \in 0 .. (Len(frames) + 1)
    /\ io_error \in (IF fail_at = 0 THEN {NoError} ELSE IoErrors)
    /\ a_pc = "collect"
    /\ a_pos = 1
    /\ a_buf = <<>>
    /\ a_out = Pending
    /\ a_resp = Pending
    /\ r_pc = "read"
    /\ r_pos = 1
    /\ r_limit = ROCKET_REQUEST_BODY_LIMIT
    /\ r_buf = <<>>
    /\ r_out = Pending

NextX ==
    \/ AxumCollectFrame
    \/ AxumCollectError
    \/ AxumCollected
    \/ AxumReject
    \/ RocketReadFrame
    \/ RocketReadError
    \/ RocketReadEnd

\* ----------------------------------------------- axum: response mapper

\* Json(value)
Json(value) == [json |-> value]

\* The errors of the handlers: values of a type E: FailureResponse, each
\* declaring its status code and its message.
HandlerErrors ==
    { [code |-> 404, message |-> "Not found"],
      [code |-> 409, message |-> "Already exists"],
      [code |-> 500, message |-> "Internal server error"],
      [code |-> 500, message |-> ""] }

\* FailureResponse::status_code, FailureResponse::response
status_code(self) == self.code
response(self) == self.message

\* impl<T> ApiResponse<T> for T where T: Serialize
Serialize_into_json_response(self) == [tag |-> "Ok", value |-> Json(self)]

\* Result::into_json_response with every error answered as a 500.
Result_into_json_response_all_500(self) ==
    IF self.tag = "Ok" THEN Serialize_into_json_response(self.value)
    ELSE [tag |-> "Err",
          error |-> <<INTERNAL_SERVER_ERROR, Json(response(self.error))>>]

\* impl<T, E> ApiResponse<T> for Result<T, E>
Result_into_json_response(self) ==
    IF self.tag = "Ok" THEN Serialize_into_json_response(self.value)
    ELSE [tag |-> "Err",
          error |-> <<status_code(self.error), Json(response(self.error))>>]

\* ------------------------------------------------------------- a handler

BodyTypes == {"RequestBody", "AxumRequestBody", "RocketRequestBody"}

\* The contents a String can have: the UTF-8 ones among the bodies.
Strings == {Concat(fs) : fs \in {b \in Bodies : IsUtf8(Concat(b))}}

\* The body values of each type: the one new() makes and the ones with a
\* given content.
BodyValues(type) ==
    CASE type = "RequestBody" ->
           {RequestBody_new} \cup {RequestBody(c) : c \in Strings}
      [] type = "AxumRequestBody" ->
           {AxumRequestBody_new} \cup {AxumRequestBody(RequestBody(c)) : c \in Strings}
      [] type = "RocketRequestBody" ->
           {RocketRequestBody_new} \cup {RocketRequestBody(RequestBody(c)) : c \in Strings}

\* The handler consumes its body with into_string.
HandlerIntoString ==
    /\ h_pc = "body"
    /\ h_out' = CASE h_type = "RequestBody" -> into_string(h_body)
                  [] h_type = "AxumRequestBody" -> AxumRequestBody_into_string(h_body)
                  [] h_type = "RocketRequestBody" -> RocketRequestBody_into_string(h_body)
    /\ h_pc' = "string"
    /\ UNCHANGED not_h
    /\ UNCHANGED <<h_type, h_body, h_result, h_reply>>

\* The handler consumes its body with into_optional_string.
HandlerIntoOptionalString ==
    /\ h_pc = "body"
    /\ h_out' = CASE h_type = "RequestBody" -> into_optional_string(h_body)
                  [] h_type = "AxumRequestBody" ->
                       AxumRequestBody_into_optional_string(h_body)
                  [] h_type = "RocketRequestBody" ->
                       RocketRequestBody_into_optional_string(h_body)
    /\ h_pc' = "optional"
    /\ UNCHANGED not_h
    /\ UNCHANGED <<h_type, h_body, h_result, h_reply>>

\* The handler returns: the value it made of the body, or an error.
HandlerReturn ==
    /\ h_pc \in {"string", "optional"}
    /\ \/ h_result' = [tag |-> "Ok", value |-> h_out]
       \/ \E e \in HandlerErrors : h_result' = [tag |-> "Err", error |-> e]
    /\ h_pc' = "returned"
    /\ UNCHANGED not_h
    /\ UNCHANGED <<h_type, h_body, h_out, h_reply>>

\* result.into_json_response()
HandlerReply ==
    /\ h_pc = "returned"
    /\ h_reply' = Result_into_json_response(h_result)
    /\ h_pc' = "replied"
    /\ UNCHANGED not_h
    /\ UNCHANGED <<h_type, h_body, h_out, h_result>>

InitH ==
    /\ h_pc = "body"
    /\ h_type \in BodyTypes
    /\ h_body \in BodyValues(h_type)
    /\ h_out = Pending
    /\ h_result = Pending
    /\ h_reply = Pending

NextH ==
    \/ HandlerIntoString
    \/ HandlerIntoOptionalString
    \/ HandlerReturn
    \/ HandlerReply

\* ------------------------------------- Rocket: query result response mapper

\* rocket::http::Status
Status_BadRequest == [code |-> 400, reason |-> "Bad Request"]
Status_NotFound == [code |-> 404, reason |-> "Not Found"]
Status_Conflict == [code |-> 409, reason |-> "Conflict"]
Status_InternalServerError == [code |-> 500, reason |-> "Internal Server Error"]

\* diesel::result::DatabaseErrorKind
DatabaseErrorKinds ==
    {"UniqueViolation", "ForeignKeyViolation", "UnableToSendCommand",
     "SerializationFailure", "__Unknown"}

\* The messages of the backend.
BackendMessages ==
    {"duplicate key value violates unique constraint \"players_username_key\"",
     "server closed the connection unexpectedly"}

\* diesel::result::Error
ResultError_NotFound == [variant |-> "NotFound", description |-> "Record not found"]
ResultError_DatabaseError(kind, message) ==
    [variant |-> "DatabaseError", kind |-> kind, info |-> [message |-> message],
     description |-> message]
ResultError_Other(variant, description) ==
    [variant |-> variant, description |-> description]

ResultErrors ==
    {ResultError_NotFound}
    \cup {ResultError_DatabaseError(k, m) : k \in DatabaseErrorKinds, m \in BackendMessages}
    \cup {ResultError_Other(v, m) :
            v \in {"QueryBuilderError", "DeserializationError", "RollbackTransaction"},
            m \in BackendMessages}

\* The rows a query returns.
Items == {[username |-> "alice"], [username |-> "bob"]}

\* diesel::result::QueryResult<T>
QueryResults ==
    {[tag |-> "Ok", value |-> item] : item \in Items}
    \cup {[tag |-> "Err", error |-> e] : e \in ResultErrors}

\* warn!(target: .., "{}", message)
Warn(target, message) == [level |-> "warn", target |-> target, message |-> message]

\* Error::description(), DatabaseErrorInformation::message()
description(self) == self.description
message(info) == info.message

\* build_internal_server_error_response answering with the message as the
\* reason of the status.
build_internal_server_error_response_leaky(msg) ==
    [status |-> [code |-> 500, reason |-> msg], log |-> <<Warn("api", msg)>>]

\* build_internal_server_error_response: the status it returns and the
\* record it logs.
build_internal_server_error_response(msg) ==
    [status |-> Status_InternalServerError, log |-> <<Warn("api", msg)>>]

\* build_database_error_response with the two constraint violations swapped.
build_database_error_response_swapped(error_kind, info) ==
    CASE error_kind = "UniqueViolation" -> [status |-> Status_BadRequest, log |-> <<>>]
      [] error_kind = "ForeignKeyViolation" -> [status |-> Status_Conflict, log |-> <<>>]
      [] OTHER -> build_internal_server_error_response(message(info))

\* build_database_error_response
build_database_error_response(error_kind, info) ==
    CASE error_kind = "UniqueViolation" -> [status |-> Status_Conflict, log |-> <<>>]
      [] error_kind = "ForeignKeyViolation" -> [status |-> Status_BadRequest, log |-> <<>>]
      [] OTHER -> build_internal_server_error_response(message(info))

\* impl FailureResponse for ResultError
into_failure_response(self) ==
    build_internal_server_error_response(description(self))

\* ApiJsonResponse<T> = Result<Json<T>, Status> with a JSON message added to
\* its error side.
QueryResult_into_json_response_with_message(self) ==
    IF self.tag = "Ok"
    THEN [reply |-> [tag |-> "Ok", value |-> Json(self.value)], log |-> <<>>]
    ELSE LET error == self.error
             failure ==
                 CASE error.variant = "NotFound" ->
                        [status |-> Status_NotFound, log |-> <<>>]
                   [] error.variant = "DatabaseError" ->
                        build_database_error_response(error.kind, error.info)
                   [] OTHER -> into_failure_response(error)
         IN  [reply |-> [tag |-> "Err",
                         error |-> <<failure.status, Json(description(error))>>],
              log |-> failure.log]

\* impl<T> ApiResponse<T> for QueryResult<T>: the reply and the records
\* logged while making it. The error side of ApiJsonResponse<T> has one
\* component, the Status.
QueryResult_into_json_response(self) ==
    IF self.tag = "Ok"
    THEN [reply |-> [tag |-> "Ok", value |-> Json(self.value)], log |-> <<>>]
    ELSE LET error == self.error
             failure ==
                 CASE error.variant = "NotFound" ->
                        [status |-> Status_NotFound, log |-> <<>>]
                   [] error.variant = "DatabaseError" ->
                        build_database_error_response(error.kind, error.info)
                   [] OTHER -> into_failure_response(error)
         IN  [reply |-> [tag |-> "Err", error |-> <<failure.status>>],
              log |-> failure.log]

\* Two requests, each with the result of its query.
QueryRequests == {1, 2}

\* query.into_json_response() in the handler of request i.
QueryReply(i) ==
    /\ q_pc[i] = "result"
    /\ LET made == QueryResult_into_json_response(q_result[i])
       IN  /\ q_reply' = [q_reply EXCEPT ![i] = made.reply]
           /\ log' = log \o made.log
    /\ q_pc' = [q_pc EXCEPT ![i] = "replied"]
    /\ UNCHANGED not_q
    /\ UNCHANGED q_result

InitQ ==
    /\ q_pc = [i \in QueryRequests |-> "result"]
    /\ q_result \in [QueryRequests -> QueryResults]
    /\ q_reply = [i \in QueryRequests |-> Pending]

NextQ == \E i \in QueryRequests : QueryReply(i)

\* ------------------------------------------------- core: ServerConfig

\* u16::MAX, the largest port
U16_MAX == 65535

\* struct ServerConfig
ServerConfig(address, port, mount_point) ==
    [address |-> address, port |-> port, mount_point |-> mount_point]

\* impl Default for ServerConfig
ServerConfig_default == ServerConfig("0.0.0.0", 8080, "/")

\* The state of one variable of the environment: not set, set to a value
\* that is not valid Unicode, or set to a text. The text of APP_PORT is the
\* sequence of its characters.
NotPresent == [tag |-> "NotPresent"]
NotUnicode == [tag |-> "NotUnicode"]
Set(value) == [tag |-> "Set", value |-> value]

\* std::env::var
env_var(env, key) ==
    IF env[key].tag = "Set"
    THEN [tag |-> "Ok", value |-> env[key].value]
    ELSE [tag |-> "Err", error |-> env[key].tag]

\* char::to_digit(10)
DigitValue ==
    [c \in {"0", "1", "2", "3", "4", "5", "6", "7", "8", "9"} |->
        CASE c = "0" -> 0 [] c = "1" -> 1 [] c = "2" -> 2 [] c = "3" -> 3
          [] c = "4" -> 4 [] c = "5" -> 5 [] c = "6" -> 6 [] c = "7" -> 7
          [] c = "8" -> 8 [] c = "9" -> 9]

\* The digit loop of u16::from_str: checked_mul(10), then checked_add(digit).
RECURSIVE parse_digits(_, _)
parse_digits(digits, result) ==
    IF digits = <<>>
    THEN [tag |-> "Ok", value |-> result]
    ELSE IF Head(digits) \notin DOMAIN DigitValue
         THEN [tag |-> "Err", error |-> "InvalidDigit"]
         ELSE IF result * 10 > U16_MAX
              THEN [tag |-> "Err", error |-> "PosOverflow"]
              ELSE IF result * 10 + DigitValue[Head(digits)] > U16_MAX
                   THEN [tag |-> "Err", error |-> "PosOverflow"]
                   ELSE parse_digits(Tail(digits),
                                     result * 10 + DigitValue[Head(digits)])

\* str::parse::<u16>: an empty text and a lone sign are errors, a leading
\* "+" is skipped, a "-" is not a digit of an unsigned type.
parse_u16(src) ==
    IF src = <<>>
    THEN [tag |-> "Err", error |-> "Empty"]
    ELSE IF Len(src) = 1 /\ Head(src) \in {"+", "-"}
         THEN [tag |-> "Err", error |-> "InvalidDigit"]
         ELSE IF Head(src) = "+"
              THEN parse_digits(Tail(src), 0)
              ELSE parse_digits(src, 0)

\* read_port_from_environment_or with unwrap_or_default() for unwrap_or().
read_port_from_environment_or_zero(env, default_port) ==
    LET port == env_var(env, "APP_PORT")
    IN  IF port.tag = "Ok"
        THEN IF parse_u16(port.value).tag = "Ok"
             THEN parse_u16(port.value).value
             ELSE 0
        ELSE default_port

\* read_port_from_environment_or
read_port_from_environment_or(env, default_port) ==
    LET port == env_var(env, "APP_PORT")
    IN  IF port.tag = "Ok"
        THEN IF parse_u16(port.value).tag = "Ok"
             THEN parse_u16(port.value).value
             ELSE default_port
        ELSE default_port

\* ServerConfig::from_env_or reading the mount point from APP_ADDRESS.
from_env_or_wrong_variable(env, default_config) ==
    LET address == IF env_var(env, "APP_ADDRESS").tag = "Ok"
                   THEN env_var(env, "APP_ADDRESS").value
                   ELSE default_config.address
        port == read_port_from_environment_or(env, default_config.port)
        mount_point == IF env_var(env, "APP_ADDRESS").tag = "Ok"
                       THEN env_var(env, "APP_ADDRESS").value
                       ELSE default_config.mount_point
    IN  ServerConfig(address, port, mount_point)

\* ServerConfig::from_env_or
from_env_or(env, default_config) ==
    LET address == IF env_var(env, "APP_ADDRESS").tag = "Ok"
                   THEN env_var(env, "APP_ADDRESS").value
                   ELSE default_config.address
        port == read_port_from_environment_or(env, default_config.port)
        mount_point == IF env_var(env, "APP_MOUNT_POINT").tag = "Ok"
                       THEN env_var(env, "APP_MOUNT_POINT").value
                       ELSE default_config.mount_point
    IN  ServerConfig(address, port, mount_point)

\* ServerConfig::from_env
from_env(env) == from_env_or(env, ServerConfig_default)

\* The texts APP_PORT is set to.
PortTexts ==
    {<< >>, <<"8", "0">>, <<"+", "8", "0">>, <<"-", "1">>, <<"-">>,
     <<"0", "8", "0">>, <<"8", "0", "a">>, <<" ", "8", "0">>,
     <<"6", "5", "5", "3", "5">>, <<"6", "5", "5", "3", "6">>,
     <<"9", "9", "9", "9", "9", "9">>}

\* The environments of a process.
Environments ==
    {[key \in {"APP_ADDRESS", "APP_PORT", "APP_MOUNT_POINT"} |->
        CASE key = "APP_ADDRESS" -> address
          [] key = "APP_PORT" -> port
          [] key = "APP_MOUNT_POINT" -> mount_point] :
        address \in {NotPresent, NotUnicode, Set("127.0.0.1")},
        port \in {NotPresent, NotUnicode} \cup {Set(text) : text \in PortTexts},
        mount_point \in {NotPresent, NotUnicode, Set("/api")}}

\* The default configurations a caller passes to from_env_or.
DefaultConfigs == {ServerConfig_default, ServerConfig("::1", 3000, "/v1")}

\* Two processes, each with its environment.
Processes == {1, 2}

\* ServerConfig::from_env() in process i.
ConfigFromEnv(i) ==
    /\ c_pc[i] = "start"
    /\ c_default' = [c_default EXCEPT ![i] = ServerConfig_default]
    /\ c_config' = [c_config EXCEPT ![i] = from_env(c_env[i])]
    /\ c_pc' = [c_pc EXCEPT ![i] = "resolved"]
    /\ UNCHANGED not_c
    /\ UNCHANGED c_env

\* ServerConfig::from_env_or(default_config) in process i.
ConfigFromEnvOr(i, default_config) ==
    /\ c_pc[i] = "start"
    /\ c_default' = [c_default EXCEPT ![i] = default_config]
    /\ c_config' = [c_config EXCEPT ![i] = from_env_or(c_env[i], default_config)]
    /\ c_pc' = [c_pc EXCEPT ![i] = "resolved"]
    /\ UNCHANGED not_c
    /\ UNCHANGED c_env

InitC ==
    /\ c_pc = [i \in Processes |-> "start"]
    /\ c_env \in [Processes -> Environments]
    /\ c_default = [i \in Processes |-> Pending]
    /\ c_config = [i \in Processes |-> Pending]

NextC ==
    \/ \E i \in Processes : ConfigFromEnv(i)
    \/ \E i \in Processes : \E d \in DefaultConfigs : ConfigFromEnvOr(i, d)

\* ------------------------------------------------------ axum: App

\* A path is the sequence of its characters. A Router is the set of its
\* routes, each a path and its handler.
Route(path, handler) == [path |-> path, handler |-> handler]

\* Router::new()
Router_new == {}

\* str::trim_start_matches('/')
RECURSIVE trim_start_slashes(_)
trim_start_slashes(path) ==
    IF path # <<>> /\ Head(path) = "/"
    THEN trim_start_slashes(Tail(path))
    ELSE path

\* axum: the path of a route of a nested router.
path_for_nested_route(prefix, path) ==
    IF prefix[Len(prefix)] = "/"
    THEN prefix \o trim_start_slashes(path)
    ELSE IF path = <<"/">>
         THEN prefix
         ELSE prefix \o path

\* axum: a segment of the path starts with "*".
has_wildcard(path) ==
    \E k \in 1..Len(path) : path[k] = "*" /\ (k = 1 \/ path[k - 1] = "/")

\* What a call of the router gives: a router or a panic.
Served(routes) == [tag |-> "router", routes |-> routes]
Panicked == [tag |-> "panic", routes |-> {}]

\* Router::nest. axum 0.8 panics for "" and "/" (nesting at the root); axum
\* 0.7 takes "" as "/". Both panic for a wildcard in the path and for a
\* route whose path does not start with "/".
nest(axum, self, path, router) ==
    IF axum = "0.8" /\ (path = <<>> \/ path = <<"/">>)
    THEN Panicked
    ELSE LET prefix == IF path = <<>> THEN <<"/">> ELSE path
             routes == {Route(path_for_nested_route(prefix, r.path), r.handler) :
                          r \in router}
         IN  IF has_wildcard(prefix)
             THEN Panicked
             ELSE IF \E r \in routes : r.path = <<>> \/ Head(r.path) # "/"
                  THEN Panicked
                  ELSE Served(self \cup routes)

\* App::resolve_router nesting at every mount point.
resolve_router_always_nest(axum, self) ==
    nest(axum, Router_new, self.config.mount_point, self.router)

\* App::resolve_router
resolve_router(axum, self) ==
    IF self.config.mount_point = <<"/">>
    THEN Served(self.router)
    ELSE nest(axum, Router_new, self.config.mount_point, self.router)

\* The mount points of the configuration: "", "/", "/a", "/a/", "a", "/*".
MountPoints ==
    {<< >>, <<"/">>, <<"/", "a">>, <<"/", "a", "/">>, <<"a">>, <<"/", "*">>}

\* The routes of the application: "/", "/u", "/a/u".
AppRoutes ==
    {Route(<<"/">>, "index"), Route(<<"/", "u">>, "users"),
     Route(<<"/", "a", "/", "u">>, "admins")}

\* App::new(config, router)
Apps ==
    {[config |-> ServerConfig("0.0.0.0", 8080, mount_point), router |-> router] :
        mount_point \in MountPoints, router \in (SUBSET AppRoutes) \ {{}}}

\* The versions of axum that have axum::serve.
AxumVersions == {"0.7", "0.8"}

\* let app = self.resolve_router() in App::run.
AppResolveRouter ==
    /\ m_pc = "start"
    /\ m_served' = resolve_router(m_axum, m_app)
    /\ m_pc' = "resolved"
    /\ UNCHANGED not_m
    /\ UNCHANGED <<m_axum, m_app>>

InitM ==
    /\ m_pc = "start"
    /\ m_axum \in AxumVersions
    /\ m_app \in Apps
    /\ m_served = Pending

NextM == AppResolveRouter

\* ------------------------------------------- Rocket: DatabaseConnection

\* Bounds on the size of the pool and on the number of requests.
MaxPoolSize == 2
MaxRequests == 3

\* initialize_database_pool: Pool::builder().max_size(max_size).build(manager)
\* opens max_size connections, all idle.
initialize_database_pool(url, max_size) ==
    [url |-> url, max_size |-> max_size, conns |-> max_size, idle |-> max_size]

\* pool.get(): an idle connection leaves the pool.
Pool_get(pool) == [pool EXCEPT !.idle = pool.idle - 1]

\* pool.get() as a Result: Ok with an idle connection, the timeout error of
\* the pool without one.
Pool_get_result(pool) ==
    IF pool.idle > 0
    THEN [tag |-> "Ok"]
    ELSE [tag |-> "Err", error |-> "timed out waiting for connection"]

Status_ServiceUnavailable == [code |-> 503, reason |-> "Service Unavailable"]

\* from_request answering a failure of the pool as an internal error.
DatabaseConnection_from_request_as_500(got) ==
    IF got.tag = "Ok"
    THEN [outcome |-> [tag |-> "Success", value |-> "DatabaseConnection"],
          log |-> <<>>]
    ELSE [outcome |-> [tag |-> "Failure", status |-> Status_InternalServerError],
          log |-> <<Warn("request",
                         "Can't get a connection from the pool: " \o got.error)>>]

\* impl FromRequest for DatabaseConnection: the Outcome made of the result
\* of pool.get(), and the record logged.
DatabaseConnection_from_request(got) ==
    IF got.tag = "Ok"
    THEN [outcome |-> [tag |-> "Success", value |-> "DatabaseConnection"],
          log |-> <<>>]
    ELSE [outcome |-> [tag |-> "Failure", status |-> Status_ServiceUnavailable],
          log |-> <<Warn("request",
                         "Can't get a connection from the pool: " \o got.error)>>]

\* The drop of a PooledConnection that is forgotten: nothing comes back.
drop_forgotten(pool, broken) == pool

\* The drop of the PooledConnection in a DatabaseConnection: the connection
\* goes back to the idle ones, or is closed when it is broken.
drop(pool, broken) ==
    IF broken
    THEN [pool EXCEPT !.conns = pool.conns - 1]
    ELSE [pool EXCEPT !.idle = pool.idle + 1]

\* The pool opening a connection in place of a closed one.
PoolReplenish ==
    /\ p_pool.conns < p_pool.max_size
    /\ p_pool' = [p_pool EXCEPT !.conns = p_pool.conns + 1,
                                !.idle = p_pool.idle + 1]
    /\ UNCHANGED <<p_req, p_out, log>>
    /\ UNCHANGED not_p

DatabaseRequests == 1..MaxRequests

\* DatabaseConnection::from_request: pool.get() gives a connection.
DatabaseFromRequest(r) ==
    /\ p_req[r] = "new"
    /\ Pool_get_result(p_pool).tag = "Ok"
    /\ p_pool' = Pool_get(p_pool)
    /\ p_out' = [p_out EXCEPT
                   ![r] = DatabaseConnection_from_request(Pool_get_result(p_pool)).outcome]
    /\ p_req' = [p_req EXCEPT ![r] = "holding"]
    /\ UNCHANGED log
    /\ UNCHANGED not_p

\* DatabaseConnection::from_request: pool.get() times out with no idle
\* connection; the failure is logged and the outcome is
\* Failure((Status::ServiceUnavailable, ())).
DatabaseFromRequestFailure(r) ==
    /\ p_req[r] = "new"
    /\ Pool_get_result(p_pool).tag = "Err"
    /\ LET made == DatabaseConnection_from_request(Pool_get_result(p_pool))
       IN  /\ p_out' = [p_out EXCEPT ![r] = made.outcome]
           /\ log' = log \o made.log
    /\ p_req' = [p_req EXCEPT ![r] = "unavailable"]
    /\ UNCHANGED p_pool
    /\ UNCHANGED not_p

\* The handler of request r ends: it returns, returns an error or panics,
\* and its DatabaseConnection is dropped.
DatabaseRequestEnd(r, exit, broken) ==
    /\ p_req[r] = "holding"
    /\ p_pool' = drop(p_pool, broken)
    /\ p_req' = [p_req EXCEPT ![r] = exit]
    /\ UNCHANGED <<p_out, log>>
    /\ UNCHANGED not_p

InitP ==
    /\ \E max_size \in 1..MaxPoolSize :
          p_pool = initialize_database_pool("postgres://::1/test", max_size)
    /\ p_req = [r \in DatabaseRequests |-> "new"]
    /\ p_out = [r \in DatabaseRequests |-> Pending]

NextP ==
    \/ \E r \in DatabaseRequests : DatabaseFromRequest(r)
    \/ \E r \in DatabaseRequests : DatabaseFromRequestFailure(r)
    \/ \E r \in DatabaseRequests :
          \E exit \in {"returned", "failed", "aborted"} :
              \E broken \in BOOLEAN : DatabaseRequestEnd(r, exit, broken)
    \/ PoolReplenish

\* ------------------------------------------------ concurrent extractions

\* Bound on the number of frames of the body of a concurrent request.
MaxConcurrentFrames == 2

\* The bodies of the concurrent requests: frames of a whole limit of ASCII
\* bytes and of one byte that is not UTF-8.
ConcurrentBodies ==
    SeqsUpTo({[b |-> Ascii, n |-> REQUEST_BODY_LIMIT], [b |-> Bad, n |-> 1]},
             MaxConcurrentFrames)

\* The requests in flight, each with the binding that serves it, its byte
\* source and the locals of its extraction.
ConcurrentRequests == {1, 2}

Extraction(binding, body, failing, error) ==
    [binding |-> binding, frames |-> body, fail_at |-> failing, io_error |-> error,
     pc |-> "run", pos |-> 1, limit |-> ROCKET_REQUEST_BODY_LIMIT, buf |-> <<>>,
     out |-> Pending]

Extractions ==
    {Extraction(binding, body, failing, IF failing = 0 THEN NoError ELSE "connection reset") :
        binding \in {"axum", "rocket"},
        body \in ConcurrentBodies,
        failing \in 0 .. (MaxConcurrentFrames + 1)}

\* A buffer all requests append to (a static in place of the local).
extraction_buffer_shared(reqs, i) == reqs[1].buf

\* The buffer the extraction of request i appends to: the local of its own
\* call (the collected body, `content`).
extraction_buffer(reqs, i) == reqs[i].buf

\* One step of body.collect() and what follows it in from_request, for the
\* request `own` appending to `buf`.
from_request_step(own, buf) ==
    IF own.pos = own.fail_at
    THEN [own EXCEPT !.out = from_request_failed(own.io_error), !.pc = "done"]
    ELSE IF own.pos <= Len(own.frames)
         THEN [own EXCEPT !.buf = AppendRun(buf, own.frames[own.pos]),
                          !.pos = own.pos + 1]
         ELSE [own EXCEPT !.out = from_request_collected(buf), !.pc = "done"]

\* One step of read_to_string through Take and what follows it in
\* from_data, for the request `own` appending to `buf`.
from_data_step(own, buf) ==
    IF own.limit = 0 \/ (own.pos # own.fail_at /\ own.pos > Len(own.frames))
    THEN [own EXCEPT !.out = from_data_read(read_to_string_end(buf)), !.pc = "done"]
    ELSE IF own.pos = own.fail_at
         THEN [own EXCEPT
                 !.out = from_data_read([ok |-> FALSE,
                                         error |-> IoFailure(own.io_error)]),
                 !.pc = "done"]
         ELSE LET k == take_read(own.limit, own.frames[own.pos].n)
              IN  [own EXCEPT
                     !.buf = AppendRun(buf, [b |-> own.frames[own.pos].b, n |-> k]),
                     !.limit = own.limit - k,
                     !.pos = own.pos + 1]

extraction_step(own, buf) ==
    IF own.binding = "axum"
    THEN from_request_step(own, buf)
    ELSE from_data_step(own, buf)

\* The extraction of request i makes its next step.
ExtractionStep(i) ==
    /\ e_reqs[i].pc = "run"
    /\ e_reqs' = [e_reqs EXCEPT
                    ![i] = extraction_step(e_reqs[i], extraction_buffer(e_reqs, i))]
    /\ UNCHANGED not_e

InitE ==
    /\ e_reqs \in [ConcurrentRequests -> Extractions]
    /\ \A i \in ConcurrentRequests : e_reqs[i].fail_at <= Len(e_reqs[i].frames) + 1

NextE == \E i \in ConcurrentRequests : ExtractionStep(i)

\* ------------------------------------------------- Rocket: configuration

\* const DEFAULT_DATABASE_POOL_SIZE: u32 = 4;
DEFAULT_DATABASE_POOL_SIZE == 4

\* info!, error!
Info(target, msg) == [level |-> "info", target |-> target, message |-> msg]
Error(target, msg) == [level |-> "error", target |-> target, message |-> msg]

\* The digit loop of u32::from_str; the value overflows above 4294967295.
RECURSIVE parse_u32_digits(_, _)
parse_u32_digits(digits, result) ==
    IF digits = <<>>
    THEN [tag |-> "Ok", value |-> result]
    ELSE IF Head(digits) \notin DOMAIN DigitValue
         THEN [tag |-> "Err", error |-> "InvalidDigit"]
         ELSE IF \/ result > 429496729
                 \/ result = 429496729 /\ DigitValue[Head(digits)] > 5
              THEN [tag |-> "Err", error |-> "PosOverflow"]
              ELSE parse_u32_digits(Tail(digits),
                                    result * 10 + DigitValue[Head(digits)])

\* str::parse::<u32>
parse_u32(src) ==
    IF src = <<>>
    THEN [tag |-> "Err", error |-> "Empty"]
    ELSE IF Len(src) = 1 /\ Head(src) \in {"+", "-"}
         THEN [tag |-> "Err", error |-> "InvalidDigit"]
         ELSE IF Head(src) = "+"
              THEN parse_u32_digits(Tail(src), 0)
              ELSE parse_u32_digits(src, 0)

\* struct DefaultConfig, struct MinimalConfig
DefaultConfig(database_url, entry_point, database_pool_size, with_db) ==
    [type |-> "DefaultConfig", database_url |-> database_url,
     entry_point |-> entry_point, database_pool_size |-> database_pool_size,
     with_database |-> with_db]
MinimalConfig(entry_point) == [type |-> "MinimalConfig", entry_point |-> entry_point]

\* impl Config for DefaultConfig, impl Config for MinimalConfig
get_database_url(self) ==
    IF self.type = "DefaultConfig" THEN self.database_url ELSE ""
get_entry_point(self) == self.entry_point
get_database_pool_size(self) ==
    IF self.type = "DefaultConfig" THEN self.database_pool_size ELSE 0
with_database(self) ==
    IF self.type = "DefaultConfig" THEN self.with_database ELSE FALSE

\* dotenv(): a .env file that cannot be parsed is only warned about.
dotenv_log(dotenv_ok) ==
    IF dotenv_ok THEN <<>> ELSE <<Warn("config", "Can't parse .env")>>

\* impl EnvironmentConfigurable for DefaultConfig: the Result and the
\* records logged.
DefaultConfig_parse_environment(env, dotenv_ok) ==
    LET with_db == env_var(env, "LF_DISABLE_DATABASE").tag = "Err"
        url == env_var(env, "DATABASE_URL")
        entry == env_var(env, "API_ENTRY_POINT")
        size == env_var(env, "DATABASE_POOL_SIZE")
    IN  IF url.tag = "Err" /\ with_db
        THEN [result |-> [tag |-> "Err", error |-> url.error],
              log |-> dotenv_log(dotenv_ok) \o
                      <<Error("config", "You need to specify a DATABASE_URL variable in the environment (or .env file).")>>]
        ELSE LET database_url == IF url.tag = "Ok" THEN url.value ELSE ""
                 entry_point == IF entry.tag = "Ok" THEN entry.value ELSE "/"
                 bad_size == size.tag = "Ok" /\ parse_u32(size.value).tag = "Err"
                 database_pool_size ==
                     IF size.tag = "Ok" /\ parse_u32(size.value).tag = "Ok"
                     THEN parse_u32(size.value).value
                     ELSE DEFAULT_DATABASE_POOL_SIZE
             IN  [result |-> [tag |-> "Ok",
                              value |-> DefaultConfig(database_url, entry_point,
                                                      database_pool_size, with_db)],
                  log |-> dotenv_log(dotenv_ok) \o
                          (IF bad_size
                           THEN <<Warn("config", "The DATABASE_POOL_SIZE variable must be an unsigned integer.")>>
                           ELSE <<>>)]

\* impl EnvironmentConfigurable for MinimalConfig
MinimalConfig_parse_environment(env, dotenv_ok) ==
    LET entry == env_var(env, "API_ENTRY_POINT")
    IN  [result |-> [tag |-> "Ok",
                     value |-> MinimalConfig(IF entry.tag = "Ok" THEN entry.value
                                             ELSE "/")],
         log |-> dotenv_log(dotenv_ok)]

\* ------------------------------------------------------ Rocket: kernel

\* The three start_application: DefaultApplication of src/kernel.rs,
\* Application<DefaultConfig> and Application<MinimalConfig> of the legacy
\* kernel.
Applications == {"DefaultApplication", "Application<DefaultConfig>",
                 "Application<MinimalConfig>"}

\* The routes handed to start_application.
KernelRoutes == <<"status", "favicon">>

\* <U>::parse_environment()
parse_environment(app, env, dotenv_ok) ==
    IF app = "Application<MinimalConfig>"
    THEN MinimalConfig_parse_environment(env, dotenv_ok)
    ELSE DefaultConfig_parse_environment(env, dotenv_ok)

\* DefaultApplication::new, Application::new with config.into_service(routes)
into_service(app, config, routes) ==
    [type |-> CASE app = "DefaultApplication" -> "DefaultApplication"
                [] app = "Application<DefaultConfig>" -> "DefaultService"
                [] OTHER -> "MinimalService",
     config |-> config, routes |-> routes]

\* run without its test of the connection to the database.
tests_database_never(service) == FALSE

\* Whether run tests the connection to the database first: always in
\* Application::run of src/kernel.rs, with config.with_database() in
\* DefaultService, never in MinimalService.
tests_database(service) ==
    CASE service.type = "DefaultApplication" -> TRUE
      [] service.type = "DefaultService" -> with_database(service.config)
      [] OTHER -> FALSE

\* launch_server managing a pool whatever the configuration says.
manages_pool_always(service) == TRUE

\* Whether launch_server manages a database pool.
manages_pool(service) ==
    CASE service.type = "DefaultApplication" -> TRUE
      [] service.type = "DefaultService" -> with_database(service.config)
      [] OTHER -> FALSE

\* The exit code of start with the error of run ignored.
exit_code_ignoring_run(run) == 0

\* The exit code start_application ends with once run has returned:
\* process::exit(1) for an error, process::exit(0) otherwise.
exit_code(run) == IF run.tag = "Err" THEN 1 ELSE 0

\* start_application: the environment is parsed; process::exit(2) when this
\* fails.
KernelParseEnvironment ==
    /\ k_pc = "start"
    /\ LET parsed == parse_environment(k_app, k_env, k_world.dotenv)
       IN  /\ k_config' = parsed.result
           /\ log' = log \o (IF k_app = "DefaultApplication"
                             THEN <<Info("runner", "Server initialized.")>>
                             ELSE <<>>)
                       \o parsed.log
           /\ IF parsed.result.tag = "Err"
              THEN k_exit' = 2 /\ k_pc' = "exited"
              ELSE k_exit' = k_exit /\ k_pc' = "parsed"
    /\ UNCHANGED <<k_app, k_env, k_world, k_service, k_events, k_run>>
    /\ UNCHANGED not_k

\* start_application: the application, with its service, is created.
KernelNew ==
    /\ k_pc = "parsed"
    /\ k_service' = into_service(k_app, k_config.value, KernelRoutes)
    /\ log' = log \o (IF k_app = "DefaultApplication"
                      THEN <<>>
                      ELSE <<Info("runner", "Server initialized.")>>)
    /\ k_pc' = "created"
    /\ UNCHANGED <<k_app, k_env, k_world, k_config, k_events, k_run, k_exit>>
    /\ UNCHANGED not_k

\* run: the configuration of the service is checked; the connection to the
\* database is tested and its error returned.
KernelCheck ==
    /\ k_pc = "created"
    /\ IF tests_database(k_service)
       THEN /\ k_events' = Append(k_events, "test_database_connection")
            /\ IF k_world.database
               THEN /\ log' = log \o <<Info("runner", "Server started."),
                                        Info("runner", "Connection to database established.")>>
                    /\ k_run' = k_run
                    /\ k_pc' = "checked"
               ELSE /\ log' = Append(log, Info("runner", "Server started."))
                    /\ k_run' = [tag |-> "Err", error |-> "ConnectionError"]
                    /\ k_pc' = "returned"
       ELSE /\ k_events' = k_events
            /\ log' = Append(log, Info("runner", "Server started."))
            /\ k_run' = k_run
            /\ k_pc' = "checked"
    /\ UNCHANGED <<k_app, k_env, k_world, k_config, k_service, k_exit>>
    /\ UNCHANGED not_k

\* launch_server: the pool is built and managed; its error is returned, and
\* Pool::builder().max_size(0) panics.
KernelManagePool ==
    /\ k_pc = "checked"
    /\ IF manages_pool(k_service)
       THEN /\ k_events' = Append(k_events, "initialize_database_pool")
            /\ IF get_database_pool_size(k_service.config) = 0
               THEN k_run' = k_run /\ k_pc' = "panicked"
               ELSE IF k_world.pool
                    THEN k_run' = k_run /\ k_pc' = "managed"
                    ELSE /\ k_run' = [tag |-> "Err", error |-> "PoolError"]
                         /\ k_pc' = "returned"
       ELSE /\ k_events' = k_events
            /\ k_run' = k_run
            /\ k_pc' = "managed"
    /\ UNCHANGED <<k_app, k_env, k_world, k_config, k_service, k_exit, log>>
    /\ UNCHANGED not_k

\* launch_server: the routes are mounted at the entry point and the server
\* is launched. launch() returns only a LaunchError, which is dropped
\* without being inspected and panics.
KernelLaunch ==
    /\ k_pc = "managed"
    /\ k_events' = k_events \o <<"mount " \o get_entry_point(k_service.config),
                                 "launch">>
    /\ k_pc' = IF k_world.launch = "serves" THEN "serving" ELSE "panicked"
    /\ UNCHANGED <<k_app, k_env, k_world, k_config, k_service, k_run, k_exit, log>>
    /\ UNCHANGED not_k

\* start: run has returned; the error is logged and the process exits.
KernelExit ==
    /\ k_pc = "returned"
    /\ log' = log \o (IF k_run.tag = "Err"
                      THEN <<Error("runner", k_run.error)>>
                      ELSE <<>>)
    /\ k_exit' = exit_code(k_run)
    /\ k_pc' = "exited"
    /\ UNCHANGED <<k_app, k_env, k_world, k_config, k_service, k_events, k_run>>
    /\ UNCHANGED not_k

\* The environments of the process.
KernelEnvironments ==
    {[key \in {"LF_DISABLE_DATABASE", "DATABASE_URL", "API_ENTRY_POINT",
               "DATABASE_POOL_SIZE"} |->
        CASE key = "LF_DISABLE_DATABASE" -> disable
          [] key = "DATABASE_URL" -> url
          [] key = "API_ENTRY_POINT" -> entry
          [] key = "DATABASE_POOL_SIZE" -> size] :
        disable \in {NotPresent, NotUnicode, Set("1")},
        url \in {NotPresent, NotUnicode, Set("postgres://db/app")},
        entry \in {NotPresent, Set("/api")},
        size \in {NotPresent, Set(<<"2">>), Set(<<"0">>), Set(<<"x">>)}}

\* What is outside the process: whether the .env file parses, whether the
\* database accepts a connection, whether the pool can be built, and
\* whether the server serves or fails to launch.
Worlds ==
    [dotenv : BOOLEAN, database : BOOLEAN, pool : BOOLEAN,
     launch : {"serves", "Collision"}]

\* No exit code yet, no service yet.
NoExit == -1
NoService == [type |-> "None"]

InitK ==
    /\ k_pc = "start"
    /\ k_app \in Applications
    /\ k_env \in KernelEnvironments
    /\ k_world \in Worlds
    /\ k_config = Pending
    /\ k_service = NoService
    /\ k_events = <<>>
    /\ k_run = Pending
    /\ k_exit = NoExit

NextK ==
    \/ KernelParseEnvironment
    \/ KernelNew
    \/ KernelCheck
    \/ KernelManagePool
    \/ KernelLaunch
    \/ KernelExit

\* --------------------------------------------------------- specifications

\* No request body is being extracted.
IdleX ==
    /\ frames = <<>>
    /\ fail_at = 0
    /\ io_error = NoError
    /\ a_pc = "idle"
    /\ a_pos = 1
    /\ a_buf = <<>>
    /\ a_out = Pending
    /\ a_resp = Pending
    /\ r_pc = "idle"
    /\ r_pos = 1
    /\ r_limit = ROCKET_REQUEST_BODY_LIMIT
    /\ r_buf = <<>>
    /\ r_out = Pending

\* No handler runs.
IdleH ==
    /\ h_pc = "idle"
    /\ h_type = "RequestBody"
    /\ h_body = RequestBody_new
    /\ h_out = Pending
    /\ h_result = Pending
    /\ h_reply = Pending

\* No query result is mapped.
IdleQ ==
    /\ q_pc = [i \in QueryRequests |-> "idle"]
    /\ q_result = [i \in QueryRequests |-> Pending]
    /\ q_reply = [i \in QueryRequests |-> Pending]

\* Nothing is logged yet.
EmptyLog == log = <<>>

\* No configuration is resolved.
IdleC ==
    /\ c_pc = [i \in Processes |-> "idle"]
    /\ c_env = [i \in Processes |-> Pending]
    /\ c_default = [i \in Processes |-> Pending]
    /\ c_config = [i \in Processes |-> Pending]

\* No App is run.
IdleM ==
    /\ m_pc = "idle"
    /\ m_axum = "none"
    /\ m_app = Pending
    /\ m_served = Pending

\* No database pool is built.
IdleP ==
    /\ p_pool = Pending
    /\ p_req = [r \in DatabaseRequests |-> "idle"]
    /\ p_out = [r \in DatabaseRequests |-> Pending]

\* No concurrent request is in flight.
IdleE == e_reqs = [i \in ConcurrentRequests |-> Pending]

\* No application is started.
IdleK ==
    /\ k_pc = "idle"
    /\ k_app = "none"
    /\ k_env = Pending
    /\ k_world = Pending
    /\ k_config = Pending
    /\ k_service = NoService
    /\ k_events = <<>>
    /\ k_run = Pending
    /\ k_exit = NoExit

\* The extraction of the body of one request by both bindings.
Init == InitX /\ IdleH /\ EmptyLog /\ IdleQ /\ IdleC /\ IdleM /\ IdleP /\ IdleE /\ IdleK

Next == NextX

Spec == Init /\ [][Next]_vars

\* A handler consuming a body and the reply made of what it returns.
InitHandler == IdleX /\ InitH /\ EmptyLog /\ IdleQ /\ IdleC /\ IdleM /\ IdleP /\ IdleE /\ IdleK

NextHandler == NextH

SpecHandler == InitHandler /\ [][NextHandler]_vars

\* The results of the queries of two requests mapped to replies.
InitQuery == IdleX /\ IdleH /\ EmptyLog /\ InitQ /\ IdleC /\ IdleM /\ IdleP /\ IdleE /\ IdleK

NextQuery == NextQ

SpecQuery == InitQuery /\ [][NextQuery]_vars

\* The configuration of the server resolved in two processes.
InitConfig == IdleX /\ IdleH /\ EmptyLog /\ IdleQ /\ InitC /\ IdleM /\ IdleP /\ IdleE /\ IdleK

NextConfig == NextC

SpecConfig == InitConfig /\ [][NextConfig]_vars

\* The router an App serves.
InitApp == IdleX /\ IdleH /\ EmptyLog /\ IdleQ /\ IdleC /\ InitM /\ IdleP /\ IdleE /\ IdleK

NextApp == NextM

SpecApp == InitApp /\ [][NextApp]_vars

\* Concurrent requests taking their connection from the database pool.
InitPool == IdleX /\ IdleH /\ EmptyLog /\ IdleQ /\ IdleC /\ IdleM /\ InitP /\ IdleE /\ IdleK

NextPool == NextP

SpecPool == InitPool /\ [][NextPool]_vars

\* The extractions of concurrent requests, interleaved step by step.
InitConcurrent ==
    IdleX /\ IdleH /\ EmptyLog /\ IdleQ /\ IdleC /\ IdleM /\ IdleP /\ InitE
    /\ IdleK

NextConcurrent == NextE

SpecConcurrent == InitConcurrent /\ [][NextConcurrent]_vars

\* An application started with start_application.
InitKernel ==
    IdleX /\ IdleH /\ EmptyLog /\ IdleQ /\ IdleC /\ IdleM /\ IdleP /\ IdleE
    /\ InitK

NextKernel == NextK

SpecKernel == InitKernel /\ [][NextKernel]_vars

\* ------------------------------------------------- extraction: properties

\* The bytes of the request body, as the client sent them.
SentBody == Concat(frames)

\* The byte source delivers the whole body and ends normally.
SourceSound == fail_at = 0

AxumReturned == a_pc \in {"extracted", "rejected", "responded"}

RocketReturned == r_pc = "done"

\* C1: a body of more than REQUEST_BODY_LIMIT bytes, delivered whole, is
\* rejected by the axum extractor with TooLarge, whether or not its bytes
\* are UTF-8: the size check comes before the UTF-8 conversion.
C1_OversizedIsTooLarge ==
    (AxumReturned /\ SourceSound /\ ByteLen(SentBody) > REQUEST_BODY_LIMIT)
        => (a_out.tag = "Err" /\ a_out.error = TooLarge)

C1_Witness ==
    /\ a_pc = "responded"
    /\ SourceSound
    /\ ByteLen(SentBody) > REQUEST_BODY_LIMIT
    /\ ~IsUtf8(SentBody)
    /\ a_out.error = TooLarge

\* C2: at no point of an extraction does an extractor hold more than
\* REQUEST_BODY_LIMIT + 1 bytes of the body, however long the body is.
C2_BufferCapped ==
    /\ ByteLen(a_buf) <= REQUEST_BODY_LIMIT + 1
    /\ ByteLen(r_buf) <= REQUEST_BODY_LIMIT + 1

\* C3: on the same byte source the Rocket guard and the axum extractor end
\* alike: both succeed with the same content, or both fail with the same
\* status (the status stands for the kind: 413, 400 and 500 are the statuses
\* of TooLarge, InvalidEncoding and ReadError).
C3_BindingsAgree ==
    (a_pc \in {"extracted", "responded"} /\ RocketReturned) =>
        /\ (a_out.tag = "Ok") <=> (r_out.tag = "Success")
        /\ (a_out.tag = "Ok" /\ r_out.tag = "Success")
               => a_out.value.inner.content = r_out.value.inner.content
        /\ (a_out.tag = "Err" /\ r_out.tag = "Failure")
               => a_resp.status = r_out.status

\* C4: a UTF-8 body of at most REQUEST_BODY_LIMIT bytes, delivered whole, is
\* extracted with success and its content is the body sent, byte for byte
\* (the empty body gives the empty content).
C4_ValidBodyExtracted ==
    (SourceSound /\ ByteLen(SentBody) <= REQUEST_BODY_LIMIT /\ IsUtf8(SentBody)) =>
        /\ AxumReturned =>
               /\ a_out.tag = "Ok"
               /\ a_out.value.inner.content = SentBody
               /\ (frames = <<>> => a_out.value.inner.content = <<>>)
        /\ RocketReturned =>
               /\ r_out.tag = "Success"
               /\ r_out.value.inner.content = SentBody

C4_Witness ==
    /\ a_pc = "extracted"
    /\ SourceSound
    /\ Len(frames) > 1
    /\ ByteLen(a_out.value.inner.content) = REQUEST_BODY_LIMIT

\* C5: a body of at most REQUEST_BODY_LIMIT bytes that is not UTF-8,
\* delivered whole, is rejected as InvalidEncoding with status 400 by both
\* bindings, never with status 500 and never extracted.
C5_InvalidBodyIs400 ==
    (SourceSound /\ ByteLen(SentBody) <= REQUEST_BODY_LIMIT /\ ~IsUtf8(SentBody)) =>
        /\ AxumReturned => (a_out.tag = "Err" /\ a_out.error = InvalidEncoding)
        /\ a_pc = "responded" => a_resp.status = BAD_REQUEST
        /\ RocketReturned => (r_out.tag = "Failure" /\ r_out.status = BAD_REQUEST)

\* C6: the content of every body a binding extracts with success has at
\* most REQUEST_BODY_LIMIT bytes.
C6_ContentWithinLimit ==
    /\ a_out.tag = "Ok" => ByteLen(a_out.value.inner.content) <= REQUEST_BODY_LIMIT
    /\ r_out.tag = "Success" => ByteLen(r_out.value.inner.content) <= REQUEST_BODY_LIMIT

C6_Witness ==
    /\ r_out.tag = "Success"
    /\ ByteLen(SentBody) > REQUEST_BODY_LIMIT
    /\ ByteLen(r_out.value.inner.content) = REQUEST_BODY_LIMIT

\* C7: when the byte source fails while the axum extractor reads it, the
\* extraction ends with ReadError carrying the description of the failure,
\* whatever was read before, and after from_request has returned the source
\* is not read again.
C7_ReadErrorFinal ==
    /\ [](AxumReturned /\ ~SourceSound =>
             /\ a_out.tag = "Err"
             /\ a_out.error.kind = "ReadError"
             /\ a_out.error.detail = to_string(io_error)
             /\ a_out.error.detail # "")
    /\ [][AxumReturned => (a_pos' = a_pos /\ a_buf' = a_buf /\ a_out' = a_out)]_vars

C7_Witness ==
    /\ a_pc = "responded"
    /\ fail_at > 1
    /\ a_buf # <<>>
    /\ a_out.error.kind = "ReadError"

\* A rejection of the axum extractor is answered with the status of its
\* kind and a message that is not empty.
AxumFailureStatus ==
    a_pc = "responded" =>
        /\ a_out.error.kind = "TooLarge" => a_resp.status = 413
        /\ a_out.error.kind = "InvalidEncoding" => a_resp.status = 400
        /\ a_out.error.kind = "ReadError" => a_resp.status = 500
        /\ a_resp.status \notin 200 .. 299
        /\ a_resp.body # ""

\* A failure of the Rocket guard carries the status of its kind, 400 when
\* the bytes read are not UTF-8 and 500 when the stream failed, and a
\* message that is not empty.
RocketFailureStatus ==
    r_out.tag = "Failure" =>
        /\ r_out.status = IF r_out.error = debug_fmt(InvalidData) THEN 400 ELSE 500
        /\ r_out.status \notin 200 .. 299
        /\ r_out.error # ""

\* C8: in both bindings every extraction failure is answered with the one
\* status of its kind, TooLarge 413, InvalidEncoding 400, ReadError 500,
\* never a 2xx status, with a message that is not empty.
C8_FailureStatus == AxumFailureStatus /\ RocketFailureStatus

\* ---------------------------------------------------- handler: properties

\* The content of the handler's body argument.
HandlerContent ==
    IF h_type = "RequestBody" THEN h_body.content ELSE h_body.inner.content

\* C9: into_optional_string gives None exactly when the content of the body
\* is empty and Some(content) otherwise, into_string gives the content, and
\* a body made by new() gives "" and None; the axum and Rocket wrappers give
\* what the body they wrap gives.
C9_BodyConversions ==
    /\ h_pc = "optional" =>
           /\ (h_out = None) <=> (HandlerContent = <<>>)
           /\ HandlerContent # <<>> => h_out = Some(HandlerContent)
           /\ h_body \in {RequestBody_new, AxumRequestBody_new, RocketRequestBody_new}
                  => h_out = None
    /\ h_pc = "string" =>
           /\ h_out = HandlerContent
           /\ h_body \in {RequestBody_new, AxumRequestBody_new, RocketRequestBody_new}
                  => h_out = <<>>

C9_Witness ==
    /\ h_pc = "optional"
    /\ h_type = "AxumRequestBody"
    /\ HandlerContent = <<>>
    /\ h_out = None

\* C10: the reply made of Ok(v) is Ok(Json(v)), and the reply made of
\* Err(e) is Err((status, Json(message))) with the status code and the
\* message e declares.
C10_ResultReply ==
    h_pc = "replied" =>
        /\ h_result.tag = "Ok" =>
               (h_reply.tag = "Ok" /\ h_reply.value = [json |-> h_result.value])
        /\ h_result.tag = "Err" =>
               /\ h_reply.tag = "Err"
               /\ h_reply.error = <<h_result.error.code, [json |-> h_result.error.message]>>

C10_Witness ==
    /\ h_pc = "replied"
    /\ h_result.tag = "Err"
    /\ h_reply.tag = "Err"
    /\ h_reply.error[1] = 404

\* ----------------------------------------------- query mapper: properties

QueryReplied(i) == q_pc[i] = "replied"

QueryFailed(i) == QueryReplied(i) /\ q_result[i].tag = "Err"

\* The errors the mapper answers with 500: every query error but "not
\* found", the unique violation and the foreign-key violation.
OtherError(error) ==
    /\ error.variant # "NotFound"
    /\ error.variant = "DatabaseError" =>
          error.kind \notin {"UniqueViolation", "ForeignKeyViolation"}

\* C11: the mapper of a query result answers "not found" with 404, a unique
\* violation with 409, a foreign-key violation with 400 and every other
\* database error kind and query error with 500, one status each; a
\* successful result is answered with the JSON of the item.
C11_QueryStatus ==
    \A i \in QueryRequests :
        QueryReplied(i) =>
            LET result == q_result[i]
                reply == q_reply[i]
            IN  IF result.tag = "Ok"
                THEN reply = [tag |-> "Ok", value |-> [json |-> result.value]]
                ELSE /\ reply.tag = "Err"
                     /\ reply.error[1].code =
                            CASE result.error.variant = "NotFound" -> 404
                              [] /\ result.error.variant = "DatabaseError"
                                 /\ result.error.kind = "UniqueViolation" -> 409
                              [] /\ result.error.variant = "DatabaseError"
                                 /\ result.error.kind = "ForeignKeyViolation" -> 400
                              [] OTHER -> 500

\* A foreign-key violation has been answered with 400 and a found item with
\* its JSON.
C11_Witness ==
    /\ QueryFailed(1)
    /\ q_result[1].error.variant = "DatabaseError"
    /\ q_result[1].error.kind = "ForeignKeyViolation"
    /\ q_reply[1].error[1].code = 400
    /\ QueryReplied(2)
    /\ q_reply[2] = [tag |-> "Ok", value |-> [json |-> [username |-> "bob"]]]

SameClass(e1, e2) ==
    /\ e1.variant = e2.variant
    /\ e1.variant = "DatabaseError" => e1.kind = e2.kind

\* C13: two backend errors of one class answered with 500 that differ only
\* in their message get the same reply, the generic 500 status, and the
\* message of each is in the log and not in the reply.
C13_MessageNotExposed ==
    \A i, j \in QueryRequests :
        (/\ QueryFailed(i)
         /\ QueryFailed(j)
         /\ OtherError(q_result[i].error)
         /\ SameClass(q_result[i].error, q_result[j].error))
            => /\ q_reply[i] = q_reply[j]
               /\ q_reply[i] =
                     [tag |-> "Err",
                      error |-> <<[code |-> 500, reason |-> "Internal Server Error"]>>]
               /\ \E k \in 1..Len(log) :
                     log[k].message = q_result[i].error.description

\* Two errors of one class with different messages have both been answered.
C13_Witness ==
    /\ QueryFailed(1)
    /\ QueryFailed(2)
    /\ OtherError(q_result[1].error)
    /\ SameClass(q_result[1].error, q_result[2].error)
    /\ q_result[1].error.description # q_result[2].error.description

\* The half of C14 about the query mapper: a 500 reply has its record in the
\* log, at warn level, with the underlying message.
QueryFailureLogged ==
    \A i \in QueryRequests :
        (QueryFailed(i) /\ q_reply[i].error[1].code = 500)
            => \E k \in 1..Len(log) :
                  /\ log[k].level = "warn"
                  /\ log[k].message = q_result[i].error.description

\* The half of C14 about the request body: a read error answered with 500
\* has a record in the log.
ReadErrorLogged ==
    (a_pc = "responded" /\ a_resp.status = 500) => Len(log) > 0

\* C14: every failure surfaced as 500 is logged before the reply is
\* produced: no 500 reply without a log record.
C14_FailureLogged == ReadErrorLogged /\ QueryFailureLogged

\* ----------------------------------------------- ServerConfig: properties

ConfigResolved(i) == c_pc[i] = "resolved"

\* The texts of APP_PORT that are a port, with the port each one is.
UsablePorts ==
    {<< <<"8", "0">>, 80 >>, << <<"+", "8", "0">>, 80 >>,
     << <<"0", "8", "0">>, 80 >>, << <<"6", "5", "5", "3", "5">>, 65535 >>}

\* The texts of APP_PORT that are no port: empty, negative, a lone sign,
\* not numeric, with a space, above 65535.
MalformedPorts ==
    {<< >>, <<"-", "1">>, <<"-">>, <<"8", "0", "a">>, <<" ", "8", "0">>,
     <<"6", "5", "5", "3", "6">>, <<"9", "9", "9", "9", "9", "9">>}

\* The field a text variable resolves to: its value when it is set to
\* valid Unicode, the default otherwise.
TextField(variable, default) ==
    IF variable.tag = "Set" THEN variable.value ELSE default

\* C15: each field of the resolved ServerConfig is the value of its own
\* variable when that is set and usable and its default otherwise; with no
\* variable set from_env gives ("0.0.0.0", 8080, "/"); two resolutions that
\* agree on a variable and on the defaults agree on its field whatever the
\* other variables are.
C15_FieldsIndependent ==
    /\ \A i \in Processes :
          ConfigResolved(i) =>
              /\ c_config[i].address =
                    TextField(c_env[i]["APP_ADDRESS"], c_default[i].address)
              /\ c_config[i].mount_point =
                    TextField(c_env[i]["APP_MOUNT_POINT"], c_default[i].mount_point)
              /\ \A usable \in UsablePorts :
                    c_env[i]["APP_PORT"] = [tag |-> "Set", value |-> usable[1]]
                        => c_config[i].port = usable[2]
              /\ c_env[i]["APP_PORT"].tag # "Set"
                    => c_config[i].port = c_default[i].port
              /\ (/\ \A key \in DOMAIN c_env[i] : c_env[i][key].tag = "NotPresent"
                  /\ c_default[i] =
                        [address |-> "0.0.0.0", port |-> 8080, mount_point |-> "/"])
                    => c_config[i] =
                          [address |-> "0.0.0.0", port |-> 8080, mount_point |-> "/"]
    /\ \A i, j \in Processes :
          (ConfigResolved(i) /\ ConfigResolved(j) /\ c_default[i] = c_default[j]) =>
              /\ c_env[i]["APP_ADDRESS"] = c_env[j]["APP_ADDRESS"]
                    => c_config[i].address = c_config[j].address
              /\ c_env[i]["APP_PORT"] = c_env[j]["APP_PORT"]
                    => c_config[i].port = c_config[j].port
              /\ c_env[i]["APP_MOUNT_POINT"] = c_env[j]["APP_MOUNT_POINT"]
                    => c_config[i].mount_point = c_config[j].mount_point

\* One process resolved with only APP_ADDRESS usable, the other with the
\* same address and a port and mount point set.
C15_Witness ==
    /\ ConfigResolved(1)
    /\ ConfigResolved(2)
    /\ c_default[1] = c_default[2]
    /\ c_env[1]["APP_ADDRESS"] = [tag |-> "Set", value |-> "127.0.0.1"]
    /\ c_env[1]["APP_PORT"].tag = "NotPresent"
    /\ c_env[1]["APP_MOUNT_POINT"].tag = "NotUnicode"
    /\ c_env[2]["APP_ADDRESS"] = c_env[1]["APP_ADDRESS"]
    /\ c_env[2]["APP_PORT"] = [tag |-> "Set", value |-> <<"+", "8", "0">>]
    /\ c_env[2]["APP_MOUNT_POINT"] = [tag |-> "Set", value |-> "/api"]
    /\ c_config[1] = [address |-> "127.0.0.1", port |-> 8080, mount_point |-> "/"]
    /\ c_config[2] = [address |-> "127.0.0.1", port |-> 80, mount_point |-> "/api"]

\* C16: with APP_PORT set to a text that is no unsigned 16-bit integer the
\* resolution still gives a configuration: its port is the default port,
\* 8080 for from_env, and its other fields are resolved as usual.
C16_MalformedPortFallsBack ==
    \A i \in Processes :
        (/\ ConfigResolved(i)
         /\ c_env[i]["APP_PORT"].tag = "Set"
         /\ c_env[i]["APP_PORT"].value \in MalformedPorts)
            => /\ c_config[i].port = c_default[i].port
               /\ c_default[i] = [address |-> "0.0.0.0", port |-> 8080,
                                  mount_point |-> "/"]
                     => c_config[i].port = 8080
               /\ c_config[i].address =
                     TextField(c_env[i]["APP_ADDRESS"], c_default[i].address)
               /\ c_config[i].mount_point =
                     TextField(c_env[i]["APP_MOUNT_POINT"], c_default[i].mount_point)

\* from_env has resolved with APP_PORT set to 65536 and a mount point set.
C16_Witness ==
    \E i \in Processes :
        /\ ConfigResolved(i)
        /\ c_env[i]["APP_PORT"] = [tag |-> "Set", value |-> <<"6", "5", "5", "3", "6">>]
        /\ c_env[i]["APP_MOUNT_POINT"] = [tag |-> "Set", value |-> "/api"]
        /\ c_config[i].port = 8080
        /\ c_config[i].mount_point = "/api"

\* --------------------------------------------------- axum App: properties

AppResolved == m_pc = "resolved"

\* Every route of the application router is served under the prefix.
NestedUnder(prefix) ==
    /\ m_served.tag = "router"
    /\ \A r \in m_app.router :
          \E n \in m_served.routes :
              /\ n.handler = r.handler
              /\ Len(n.path) >= Len(prefix)
              /\ SubSeq(n.path, 1, Len(prefix)) = prefix
              /\ n.path # r.path

\* No route of the application router is served at its own path.
NoneAtRoot ==
    \A r \in m_app.router : r \notin m_served.routes

\* The application router is served as it is.
ServedUnchanged ==
    m_served = [tag |-> "router", routes |-> m_app.router]

NestPath(path) ==
    /\ path # <<>>
    /\ path # <<"/">>
    /\ path[1] = "/"
    /\ \A k \in 1..Len(path) : path[k] # "*"

Holding == {r \in DatabaseRequests : p_req[r] = "holding"}

AllRequestsEnded ==
    \A r \in DatabaseRequests :
        p_req[r] \in {"unavailable", "returned", "failed", "aborted"}

\* C18: the requests in flight never hold more connections than max_size,
\* every open connection is held by a request in flight or is in the pool,
\* and once all requests have ended, however they ended, every connection
\* is back in the pool.
C18_NoLeak ==
    /\ Cardinality(Holding) <= p_pool.max_size
    /\ Cardinality(Holding) + p_pool.idle = p_pool.conns
    /\ p_pool.conns <= p_pool.max_size
    /\ AllRequestsEnded => p_pool.idle = p_pool.conns

\* All requests have ended, one by a panic, one by an error and one without
\* a connection, and the pool is full again.
C18_Witness ==
    /\ AllRequestsEnded
    /\ \E r \in DatabaseRequests : p_req[r] = "aborted"
    /\ \E r \in DatabaseRequests : p_req[r] = "failed"
    /\ \E r \in DatabaseRequests : p_req[r] = "unavailable"
    /\ p_pool.idle = p_pool.max_size

\* ------------------------------------------ concurrent extractions: properties

\* The outcome of the extraction of a request run alone, from its first
\* step to its last, on its own byte source.
RECURSIVE RunAlone(_)
RunAlone(own) ==
    IF own.pc = "done" THEN own.out ELSE RunAlone(extraction_step(own, own.buf))

\* The request as it was when its extraction started.
Fresh(own) ==
    [own EXCEPT !.pc = "run", !.pos = 1, !.limit = ROCKET_REQUEST_BODY_LIMIT,
                !.buf = <<>>, !.out = [tag |-> "Pending"]]

\* C19 (outcome): whatever the interleaving, the outcome of the extraction
\* of each request is the one of that extraction run alone on its own source.
OutcomeAsAlone ==
    \A i \in ConcurrentRequests :
        e_reqs[i].pc = "done" => e_reqs[i].out = RunAlone(Fresh(e_reqs[i]))

\* C19 (one outcome): a request that has its outcome keeps it, whatever the
\* other requests do.
OneOutcome ==
    \A i \in ConcurrentRequests :
        e_reqs[i].pc = "done" => e_reqs'[i] = e_reqs[i]

DatabaseBacked ==
    /\ k_service.type \in {"DefaultApplication", "DefaultService"}
    /\ k_service.type = "DefaultService" => k_service.config.with_database

\* The positions of a call in the calls made so far.
EventAt(event) == {n \in 1..Len(k_events) : k_events[n] = event}

\* The calls that mount and launch the server.
ServerEvents ==
    {n \in 1..Len(k_events) : k_events[n] \notin {"test_database_connection",
                                                   "initialize_database_pool"}}

\* C21: in a run of the default, database-backed application the test of
\* the connection to the database comes before the pool, the mount and the
\* launch, which happen only if it succeeded; when it fails run returns the
\* error, no pool is initialized and the server is neither mounted nor
\* launched.
C21_TestBeforeLaunch ==
    DatabaseBacked =>
        /\ Len(k_events) > 0 => k_events[1] = "test_database_connection"
        /\ Len(k_events) > 1 => k_world.database
        /\ (k_events # <<>> /\ ~k_world.database) =>
              /\ k_events = <<"test_database_connection">>
              /\ k_run = [tag |-> "Err", error |-> "ConnectionError"]
              /\ k_pc \in {"returned", "exited"}
        /\ k_pc \in {"serving", "panicked"} /\ ServerEvents # {} =>
              /\ k_world.database
              /\ \A n \in ServerEvents : \E t \in EventAt("test_database_connection") : t < n

\* The connection test of the default application has failed and run has
\* returned its error.
C21_Witness ==
    /\ DatabaseBacked
    /\ k_pc = "returned"
    /\ ~k_world.database
    /\ k_events = <<"test_database_connection">>
    /\ k_run.tag = "Err"

\* C22: DATABASE_URL is mandatory for DefaultConfig: whenever it is absent
\* from the environment parse_environment returns an error, the process
\* exits with code 2 and no configuration is returned.
C22_DatabaseUrlMandatory ==
    (/\ k_app \in {"DefaultApplication", "Application<DefaultConfig>"}
     /\ k_pc # "start"
     /\ k_env["DATABASE_URL"].tag = "NotPresent")
        => /\ k_config.tag = "Err"
           /\ k_pc = "exited"
           /\ k_exit = 2

\* The half of C22 that the code keeps: with the database not disabled, an
\* absent DATABASE_URL is an error and code 2.
DatabaseUrlMandatoryWithDatabase ==
    (/\ k_app \in {"DefaultApplication", "Application<DefaultConfig>"}
     /\ k_pc # "start"
     /\ k_env["DATABASE_URL"].tag = "NotPresent"
     /\ k_env["LF_DISABLE_DATABASE"].tag # "Set")
        => /\ k_config.tag = "Err"
           /\ k_pc = "exited"
           /\ k_exit = 2

\* A service of the legacy kernel whose configuration reports no database.
ServiceWithoutDatabase ==
    /\ k_service.type \in {"DefaultService", "MinimalService"}
    /\ k_service.config.type = "DefaultConfig" => ~k_service.config.with_database

\* C23: a service whose configuration reports with_database() = false,
\* which MinimalConfig always does and DefaultConfig does when
\* LF_DISABLE_DATABASE is set, never touches the database during a run: no
\* connection test, no pool; run does not fail, and the server is mounted
\* at the entry point and launched.
C23_NoDatabaseTouched ==
    /\ (k_service.type = "MinimalService"
        \/ (k_service.type = "DefaultService"
            /\ k_env["LF_DISABLE_DATABASE"].tag = "Set"))
          => ServiceWithoutDatabase
    /\ ServiceWithoutDatabase =>
          /\ \A n \in 1..Len(k_events) :
                k_events[n] \notin {"test_database_connection",
                                    "initialize_database_pool"}
          /\ k_run.tag = "Pending"
          /\ k_pc \in {"created", "checked", "managed", "serving", "panicked"}
          /\ k_pc \in {"serving", "panicked"} =>
                k_events = <<"mount " \o k_service.config.entry_point, "launch">>
          /\ k_pc = "panicked" => k_world.launch # "serves"

\* The default service with LF_DISABLE_DATABASE set and no DATABASE_URL
\* serves at /api, with a database that is down.
C23_Witness ==
    /\ k_service.type = "DefaultService"
    /\ k_env["LF_DISABLE_DATABASE"].tag = "Set"
    /\ k_env["DATABASE_URL"].tag = "NotPresent"
    /\ ~k_world.database
    /\ k_pc = "serving"
    /\ k_events = <<"mount /api", "launch">>

\* ------------------------------------------- DatabaseConnection: properties

\* A request whose guard got no connection is failed with 503 and holds
\* nothing; only such a request has a failure.
FailedWith503 ==
    \A r \in DatabaseRequests :
        /\ p_req[r] = "unavailable" =>
              p_out[r] = [tag |-> "Failure",
                          status |-> [code |-> 503, reason |-> "Service Unavailable"]]
        /\ p_out[r].tag = "Failure" => p_req[r] = "unavailable" /\ r \notin Holding
        /\ p_out[r].tag = "Success" => p_req[r] # "unavailable"

\* A guard that runs while the pool has no connection to hand out fails
\* its request and leaves the pool and the connections held as they were;
\* a failed request never gets to hold a connection.
FailedAttemptChangesNothing ==
    \A r \in DatabaseRequests :
        /\ (p_req[r] = "new" /\ p_req'[r] # "new" /\ p_pool.idle = 0) =>
              /\ p_req'[r] = "unavailable"
              /\ p_out'[r].tag = "Failure"
              /\ p_pool' = p_pool
              /\ \A s \in DatabaseRequests : (p_req'[s] = "holding") <=> (p_req[s] = "holding")
        /\ p_req[r] = "unavailable" =>
              p_req'[r] = "unavailable" /\ p_out'[r] = p_out[r]

\* C24: when the pool cannot hand out a connection to a request, the guard
\* fails that request with 503 Service Unavailable: the request holds no
\* connection, its handler never runs with one, and the connections held
\* are unchanged by the failed attempt.
C24_Unavailable == []FailedWith503 /\ [][FailedAttemptChangesNothing]_vars

\* A request has been failed with 503 while the other requests hold all
\* the connections of the pool.
C24_Witness ==
    /\ \E r \in DatabaseRequests :
          p_req[r] = "unavailable" /\ p_out[r].status.code = 503
    /\ Cardinality(Holding) = p_pool.max_size
    /\ p_pool.max_size = 2

====
